---- MODULE Spec2Model ----
(***************************************************************************)
(* go-morss: one HTTP request through processRequest (morss.go).           *)
(* The handler validates the path and the query, downloads the feed,       *)
(* launches one goroutine per selected item (fetchFeedItems), joins them   *)
(* on a sync.WaitGroup, rebuilds the feed with FnMap and serializes it in  *)
(* the format of the parsed feed.                                          *)
(*                                                                         *)
(* Strings that the code compares with "" are sequences: "" is <<>>.       *)
(* Times are naturals ordered as time.Time is; NULL is a nil pointer.      *)
(***************************************************************************)
EXTENDS Integers, Sequences, FiniteSets, TLC

\* ---- bounds of the model ----
MaxItems == 2

NULL == -1

\* Two instants: the code reads a time only through Before, and an item time
\* and a lower limit drawn from two instants stand in all three orders
\* (before, equal, after).
Times == {0, 1}
OptTimes == Times \cup {NULL}

\* ---- the inputs of one request ----

\* req.URL.Path values: the root, the favicon, a feed URL without scheme,
\* a path with a second slash (empty host once https:// is prepended) and a
\* path with a space in the host (url.Parse fails).
Paths == {"/", "/favicon.ico", "/example.com/rss", "//rss", "/exa mple.com/rss"}

\* query["from_time"]: <<>> when the parameter is absent
FromTimeParams == {<<>>, <<"2023-01-01">>} \cup {<<"T", t>> : t \in Times}

\* query["items_cap"]: <<>> when the parameter is absent
ItemsCapParams == {<<>>, <<"abc">>} \cup {<<"N", n>> : n \in -1..MaxItems}

\* the value of the --items-cap flag, an int accepted as given; a cap above
\* the number of items of the feed acts as a cap equal to it
ServerCaps == -1..MaxItems

FeedTypes == {"rss", "atom", "json"}

emptyContent == <<>>
sourceContent == <<"source">>

\* the content readability.FromURL extracts from the page behind a link
articleContent(link) == <<"article", link>>

\* gofeed.Item as the pipeline reads it; GUID and Link are the position in
\* the source feed
Items ==
  [GUID : 1..MaxItems, Link : 1..MaxItems,
   Content : {emptyContent, sourceContent},
   UpdatedParsed : OptTimes, PublishedParsed : OptTimes]

ItemLists ==
  UNION {{s \in [1..n -> Items] : \A k \in 1..n : s[k].GUID = k /\ s[k].Link = k}
         : n \in 0..MaxItems}

\* ---- net/http and net/url as the handler uses them ----

strings_TrimPrefix(p) ==
  CASE p = "/" -> ""
    [] p = "/favicon.ico" -> "favicon.ico"
    [] p = "/example.com/rss" -> "example.com/rss"
    [] p = "//rss" -> "/rss"
    [] p = "/exa mple.com/rss" -> "exa mple.com/rss"

\* url.Parse("https://" + feedURL): [err, Scheme, Host]
url_Parse(feedURL) ==
  CASE feedURL = "example.com/rss" -> [err |-> FALSE, Scheme |-> "https", Host |-> "example.com"]
    [] feedURL = "/rss" -> [err |-> FALSE, Scheme |-> "https", Host |-> ""]
    [] feedURL = "exa mple.com/rss" -> [err |-> TRUE, Scheme |-> "", Host |-> ""]
    [] OTHER -> [err |-> FALSE, Scheme |-> "https", Host |-> feedURL]

\* a variant without the host test
isValidUrl_noHost(feedURL) ==
  LET u == url_Parse(feedURL)
  IN  ~u.err /\ u.Scheme # ""

isValidUrl(feedURL) ==
  LET u == url_Parse(feedURL)
  IN  ~u.err /\ u.Scheme # "" /\ u.Host # ""

\* time.Parse("2006-01-02T15:04:05Z", value): [err, t]
parseTimeParam(value) ==
  IF value[1] = "T" THEN [err |-> FALSE, t |-> value[2]]
  ELSE [err |-> TRUE, t |-> 0]

\* strconv.Atoi(value): [err, n]; the int is 0 when the parse fails
strconv_Atoi(value) ==
  IF value[1] = "N" THEN [err |-> FALSE, n |-> value[2]]
  ELSE [err |-> TRUE, n |-> 0]

\* The http.ResponseWriter: the header map of the handler, the header and
\* status sent (fixed by the first WriteHeader or Write) and the body.
NewResponse ==
  [wroteHeader |-> FALSE, status |-> 0, header |-> "", sent |-> "", body |-> <<>>]

Header_Set(w, ct) == [w EXCEPT !.header = ct]

WriteHeader(w, code) ==
  IF w.wroteHeader THEN w
  ELSE [w EXCEPT !.wroteHeader = TRUE, !.status = code, !.sent = w.header]

Write(w, chunk) ==
  LET h == WriteHeader(w, 200)
  IN  [h EXCEPT !.body = Append(h.body, chunk)]

http_Error(w, msg, code) ==
  Write(WriteHeader(Header_Set(w, "text/plain; charset=utf-8"), code), msg)

fromTimeParamName == "from_time"
itemsCapParamName == "items_cap"

\* fmt.Sprintf of lines 222 and 235, without the backquotes
errorMsg(name) ==
  IF name = fromTimeParamName THEN "Can't parse from_time query param value"
  ELSE "Can't parse items_cap query param value"

\* ---- fetchFeedItems: the time of an item ----

\* a variant that takes the present time for an item without timestamps
itemTime_now(item) ==
  IF item.UpdatedParsed # NULL THEN item.UpdatedParsed
  ELSE IF item.PublishedParsed # NULL THEN item.PublishedParsed
  ELSE CHOOSE t \in Times : \A u \in Times : u <= t

\* a variant that prefers the published time
itemTime_publishedFirst(item) ==
  IF item.PublishedParsed # NULL THEN item.PublishedParsed
  ELSE IF item.UpdatedParsed # NULL THEN item.UpdatedParsed
  ELSE NULL

itemTime(item) ==
  IF item.UpdatedParsed # NULL THEN item.UpdatedParsed
  ELSE IF item.PublishedParsed # NULL THEN item.PublishedParsed
  ELSE NULL

\* a variant with an exclusive lower bound
Before_orEqual(t, from) == t <= from

Before(t, from) == t < from

\* ---- state ----
VARIABLES
  pc,        \* where processRequest is
  path,      \* req.URL.Path
  w,         \* the http.ResponseWriter
  fromTime,  \* fromTime of processRequest
  itemsCap,  \* itemsCap of processRequest
  capErr,    \* err of strconv.Atoi at line 233
  fromErr,   \* err of parseTimeParam at line 220
  cancelled, \* ctx of the request is cancelled (the client went away)
  fetched,   \* fetchFeed has been called (network I/O)
  parsed,    \* the feed as gofeed parsed it (never written afterwards)
  feed,      \* the *gofeed.Feed the pipeline works on: [FeedType, Items]
  i,         \* loop index of fetchFeedItems (1-based)
  count,     \* count of fetchFeedItems
  wg,        \* the counter of the sync.WaitGroup
  unit,      \* per item: the goroutine launched for it
  feedNew,   \* feedNew.Items of processRequest
  used       \* the serializer called: "ToRss", "ToAtom", "ToJSON" or ""

vars == <<pc, path, w, fromTime, itemsCap, capErr, fromErr, cancelled, fetched, parsed, feed, i,
          count, wg, unit, feedNew, used>>

NoFeed == [FeedType |-> "", Items |-> <<>>]

Init ==
  /\ pc = "route"
  /\ path \in Paths
  /\ w = NewResponse
  /\ fromTime = 0
  /\ itemsCap = 0
  /\ capErr = FALSE
  /\ fromErr = FALSE
  /\ cancelled = FALSE
  /\ fetched = FALSE
  /\ parsed = NoFeed
  /\ feed = NoFeed
  /\ i = 1
  /\ count = 0
  /\ wg = 0
  /\ unit = <<>>
  /\ feedNew = <<>>
  /\ used = ""

\* ---- processRequest, lines 179-206 ----

ServeBadge ==
  /\ pc = "route"
  /\ strings_TrimPrefix(path) = ""
  /\ w' = Write(Header_Set(w, "text/html; charset=utf-8"), "badgePage")
  /\ pc' = "done"
  /\ UNCHANGED <<path, fromTime, itemsCap, capErr, fromErr, cancelled, fetched, parsed, feed, i,
                 count, wg, unit, feedNew, used>>

ServeFavicon ==
  /\ pc = "route"
  /\ strings_TrimPrefix(path) = "favicon.ico"
  /\ w' = http_Error(w, "Not found", 404)
  /\ pc' = "done"
  /\ UNCHANGED <<path, fromTime, itemsCap, capErr, fromErr, cancelled, fetched, parsed, feed, i,
                 count, wg, unit, feedNew, used>>

RejectUrl ==
  /\ pc = "route"
  /\ strings_TrimPrefix(path) \notin {"", "favicon.ico"}
  /\ ~isValidUrl(strings_TrimPrefix(path))
  /\ w' = http_Error(w, "No valid RSS URL found in the path", 400)
  /\ pc' = "done"
  /\ UNCHANGED <<path, fromTime, itemsCap, capErr, fromErr, cancelled, fetched, parsed, feed, i,
                 count, wg, unit, feedNew, used>>

AcceptUrl ==
  /\ pc = "route"
  /\ strings_TrimPrefix(path) \notin {"", "favicon.ico"}
  /\ isValidUrl(strings_TrimPrefix(path))
  /\ pc' = "from_time"
  /\ UNCHANGED <<path, w, fromTime, itemsCap, capErr, fromErr, cancelled, fetched, parsed, feed, i,
                 count, wg, unit, feedNew, used>>

\* ---- processRequest, lines 208-227: the lower limit of the window ----

\* fromTimeDefault is time.Now() minus 30 days: any time
FromTimeDefault ==
  /\ pc = "from_time"
  /\ \E q \in FromTimeParams, fromTimeDefault \in Times :
       /\ Len(q) = 0
       /\ fromTime' = fromTimeDefault
  /\ pc' = "items_cap"
  /\ UNCHANGED <<path, w, itemsCap, capErr, fromErr, cancelled, fetched, parsed, feed, i,
                 count, wg, unit, feedNew, used>>

FromTimeParam ==
  /\ pc = "from_time"
  /\ \E q \in FromTimeParams :
       /\ Len(q) > 0
       /\ ~parseTimeParam(q).err
       /\ fromTime' = parseTimeParam(q).t
  /\ pc' = "items_cap"
  /\ UNCHANGED <<path, w, itemsCap, capErr, fromErr, cancelled, fetched, parsed, feed, i,
                 count, wg, unit, feedNew, used>>

\* a variant without the return of line 225
FromTimeError_noReturn ==
  /\ pc = "from_time"
  /\ \E q \in FromTimeParams :
       /\ Len(q) > 0
       /\ parseTimeParam(q).err
       /\ fromTime' = parseTimeParam(q).t
  /\ fromErr' = TRUE
  /\ w' = http_Error(w, errorMsg(fromTimeParamName), 400)
  /\ pc' = "items_cap"
  /\ UNCHANGED <<path, itemsCap, capErr, cancelled, fetched, parsed, feed, i,
                 count, wg, unit, feedNew, used>>

\* lines 221-226: the 400 and the return
FromTimeError ==
  /\ pc = "from_time"
  /\ \E q \in FromTimeParams :
       /\ Len(q) > 0
       /\ parseTimeParam(q).err
       /\ fromTime' = parseTimeParam(q).t
  /\ fromErr' = TRUE
  /\ w' = http_Error(w, errorMsg(fromTimeParamName), 400)
  /\ pc' = "done"
  /\ UNCHANGED <<path, itemsCap, capErr, cancelled, fetched, parsed, feed, i,
                 count, wg, unit, feedNew, used>>

\* ---- processRequest, lines 229-239: the cap ----

ItemsCapDefault ==
  /\ pc = "items_cap"
  /\ \E q \in ItemsCapParams, itemsCapByServer \in ServerCaps :
       /\ Len(q) = 0
       /\ itemsCap' = itemsCapByServer
  /\ pc' = "fetchFeed"
  /\ UNCHANGED <<path, w, fromTime, capErr, fromErr, cancelled, fetched, parsed, feed, i,
                 count, wg, unit, feedNew, used>>

ItemsCapParam ==
  /\ pc = "items_cap"
  /\ \E q \in ItemsCapParams :
       /\ Len(q) > 0
       /\ ~strconv_Atoi(q).err
       /\ itemsCap' = strconv_Atoi(q).n
  /\ pc' = "fetchFeed"
  /\ UNCHANGED <<path, w, fromTime, capErr, fromErr, cancelled, fetched, parsed, feed, i,
                 count, wg, unit, feedNew, used>>

\* the handler writes the 400 and does not return (no return at line 238)
ItemsCapError ==
  /\ pc = "items_cap"
  /\ \E q \in ItemsCapParams :
       /\ Len(q) > 0
       /\ strconv_Atoi(q).err
       /\ itemsCap' = strconv_Atoi(q).n
  /\ capErr' = TRUE
  /\ w' = http_Error(w, errorMsg(fromTimeParamName), 400)
  /\ pc' = "fetchFeed"
  /\ UNCHANGED <<path, fromTime, fromErr, cancelled, fetched, parsed, feed, i,
                 count, wg, unit, feedNew, used>>

\* ---- processRequest, lines 244-250: fetchFeed ----

\* parser.ParseURLWithContext fails: the handler logs and returns
FetchFeedError ==
  /\ pc = "fetchFeed"
  /\ fetched' = TRUE
  /\ pc' = "done"
  /\ UNCHANGED <<path, w, fromTime, itemsCap, capErr, fromErr, cancelled,
                 parsed, feed, i,
                 count, wg, unit, feedNew, used>>

\* the feed is parsed (ParseURLWithContext gives an error once ctx is
\* cancelled); fetchFeedItems is entered (wg and count at 0)
FetchFeedFrom(types, lists) ==
  /\ pc = "fetchFeed"
  /\ ~cancelled
  /\ fetched' = TRUE
  /\ \E t \in types, items \in lists :
       /\ parsed' = [FeedType |-> t, Items |-> items]
       /\ feed' = [FeedType |-> t, Items |-> items]
       /\ unit' = [k \in 1..Len(items) |-> "none"]
  /\ i' = 1
  /\ count' = 0
  /\ wg' = 0
  /\ pc' = "loop"
  /\ UNCHANGED <<path, w, fromTime, itemsCap, capErr, fromErr, cancelled,
                 feedNew, used>>

FetchFeedOk == FetchFeedFrom(FeedTypes, ItemLists)

\* ---- fetchFeedItems, lines 116-160 ----

\* a variant that breaks one item late
capReached_late(c, cap) == c > cap

\* a variant that tests for equality
capReached_equal(c, cap) == c = cap

\* line 118
capReached(c, cap) == c >= cap

\* a variant without the content test
hasContent_never(item) == FALSE

\* line 125
hasContent(item) == item.Content # emptyContent

\* lines 136 and 139: the item is outside the window
noTime(item) == itemTime(item) = NULL

tooOld(item, from) == Before(itemTime(item), from)

\* the range is exhausted
LoopEnd ==
  /\ pc = "loop"
  /\ i > Len(feed.Items)
  /\ pc' = "wg.Wait"
  /\ UNCHANGED <<path, w, fromTime, itemsCap, capErr, fromErr, cancelled, fetched, parsed, feed, i,
                 count, wg, unit, feedNew, used>>

\* lines 118-121: break
CapReached ==
  /\ pc = "loop"
  /\ i <= Len(feed.Items)
  /\ capReached(count, itemsCap)
  /\ pc' = "wg.Wait"
  /\ UNCHANGED <<path, w, fromTime, itemsCap, capErr, fromErr, cancelled, fetched, parsed, feed, i,
                 count, wg, unit, feedNew, used>>

\* lines 125-128: continue
SkipContent ==
  /\ pc = "loop"
  /\ i <= Len(feed.Items)
  /\ ~capReached(count, itemsCap)
  /\ hasContent(feed.Items[i])
  /\ i' = i + 1
  /\ UNCHANGED <<pc, path, w, fromTime, itemsCap, capErr, fromErr, cancelled, fetched, parsed, feed,
                 count, wg, unit, feedNew, used>>

\* lines 136-138: continue
SkipNoTime ==
  /\ pc = "loop"
  /\ i <= Len(feed.Items)
  /\ ~capReached(count, itemsCap)
  /\ ~hasContent(feed.Items[i])
  /\ noTime(feed.Items[i])
  /\ i' = i + 1
  /\ UNCHANGED <<pc, path, w, fromTime, itemsCap, capErr, fromErr, cancelled, fetched, parsed, feed,
                 count, wg, unit, feedNew, used>>

\* lines 139-142: continue
SkipOld ==
  /\ pc = "loop"
  /\ i <= Len(feed.Items)
  /\ ~capReached(count, itemsCap)
  /\ ~hasContent(feed.Items[i])
  /\ ~noTime(feed.Items[i])
  /\ tooOld(feed.Items[i], fromTime)
  /\ i' = i + 1
  /\ UNCHANGED <<pc, path, w, fromTime, itemsCap, capErr, fromErr, cancelled, fetched, parsed, feed,
                 count, wg, unit, feedNew, used>>

\* lines 144-158: wg.Add(1), count += 1, go func(item)
Launch ==
  /\ pc = "loop"
  /\ i <= Len(feed.Items)
  /\ ~capReached(count, itemsCap)
  /\ ~hasContent(feed.Items[i])
  /\ ~noTime(feed.Items[i])
  /\ ~tooOld(feed.Items[i], fromTime)
  /\ wg' = wg + 1
  /\ count' = count + 1
  /\ unit' = [unit EXCEPT ![i] = "running"]
  /\ i' = i + 1
  /\ UNCHANGED <<pc, path, w, fromTime, itemsCap, capErr, fromErr, cancelled, fetched, parsed, feed,
                 feedNew, used>>

\* a variant in which the goroutine writes through the loop variable, which
\* may have moved on to the next item
setContent_next(items, k, content) ==
  IF k < Len(items) THEN [items EXCEPT ![k + 1].Content = content]
  ELSE [items EXCEPT ![k].Content = content]

\* line 157: the goroutine of item k writes the content of its own item
setContent(items, k, content) == [items EXCEPT ![k].Content = content]

\* lines 152-157 and the deferred wg.Done: the page was extracted
UnitOk(k) ==
  /\ unit[k] = "running"
  /\ feed' = [feed EXCEPT !.Items =
                setContent(feed.Items, k, articleContent(feed.Items[k].Link))]
  /\ unit' = [unit EXCEPT ![k] = "ok"]
  /\ wg' = wg - 1
  /\ UNCHANGED <<pc, path, w, fromTime, itemsCap, capErr, fromErr, cancelled, fetched, parsed, i,
                 count, feedNew, used>>

\* a variant whose error return skips wg.Done
UnitFailed_noDone(k) ==
  /\ unit[k] = "running"
  /\ unit' = [unit EXCEPT ![k] = "failed"]
  /\ UNCHANGED <<pc, path, w, fromTime, itemsCap, capErr, fromErr, cancelled, fetched, parsed, feed,
                 i, count, wg, feedNew, used>>

\* lines 153-156 and the deferred wg.Done: readability.FromURL failed
UnitFailed(k) ==
  /\ unit[k] = "running"
  /\ unit' = [unit EXCEPT ![k] = "failed"]
  /\ wg' = wg - 1
  /\ UNCHANGED <<pc, path, w, fromTime, itemsCap, capErr, fromErr, cancelled, fetched, parsed, feed,
                 i, count, feedNew, used>>

\* a variant that does not wait
waitDone_always(counter) == TRUE

\* wg.Wait() returns when the counter is zero
waitDone(counter) == counter = 0

\* lines 160-162: fetchFeedItems returns the feed
Return ==
  /\ pc = "wg.Wait"
  /\ waitDone(wg)
  /\ pc' = "build"
  /\ UNCHANGED <<path, w, fromTime, itemsCap, capErr, fromErr, cancelled, fetched, parsed, feed, i,
                 count, wg, unit, feedNew, used>>

\* ---- processRequest, lines 255-289: the new feed ----

\* a variant that stops one element short
FnMap_short(s, fn) == [k \in 1..(Len(s) - 1) |-> fn[s[k]]]

\* fn is the function applied, given on the elements of s
FnMap(s, fn) == [k \in 1..Len(s) |-> fn[s[k]]]

\* lines 271-287: the fields of feeds.Item the model follows
itemNew(item) == [Id |-> item.GUID, Link |-> item.Link, Content |-> item.Content]

BuildFeed ==
  /\ pc = "build"
  /\ feedNew' = FnMap(feed.Items,
                      [item \in {feed.Items[k] : k \in DOMAIN feed.Items} |-> itemNew(item)])
  /\ pc' = "serialize"
  /\ UNCHANGED <<path, w, fromTime, itemsCap, capErr, fromErr, cancelled, fetched, parsed, feed, i,
                 count, wg, unit, used>>

\* ---- processRequest, lines 291-324: serialization ----

ToRss ==
  /\ pc = "serialize"
  /\ feed.FeedType = "rss"
  /\ used' = "ToRss"
  /\ w' = Write(Header_Set(w, "application/xml"), "rssBody")
  /\ pc' = "done"
  /\ UNCHANGED <<path, fromTime, itemsCap, capErr, fromErr, cancelled, fetched, parsed, feed, i,
                 count, wg, unit, feedNew>>

ToRssError ==
  /\ pc = "serialize"
  /\ feed.FeedType = "rss"
  /\ used' = "ToRss"
  /\ w' = http_Error(w, "Server error", 500)
  /\ pc' = "done"
  /\ UNCHANGED <<path, fromTime, itemsCap, capErr, fromErr, cancelled, fetched, parsed, feed, i,
                 count, wg, unit, feedNew>>

ToAtom ==
  /\ pc = "serialize"
  /\ feed.FeedType = "atom"
  /\ used' = "ToAtom"
  /\ w' = Write(Header_Set(w, "application/xml"), "atomBody")
  /\ pc' = "done"
  /\ UNCHANGED <<path, fromTime, itemsCap, capErr, fromErr, cancelled, fetched, parsed, feed, i,
                 count, wg, unit, feedNew>>

ToAtomError ==
  /\ pc = "serialize"
  /\ feed.FeedType = "atom"
  /\ used' = "ToAtom"
  /\ w' = http_Error(w, "Server error", 500)
  /\ pc' = "done"
  /\ UNCHANGED <<path, fromTime, itemsCap, capErr, fromErr, cancelled, fetched, parsed, feed, i,
                 count, wg, unit, feedNew>>

\* lines 311-318: ToJSON, then the encoder writes the body
ToJSON ==
  /\ pc = "serialize"
  /\ feed.FeedType = "json"
  /\ used' = "ToJSON"
  /\ w' = Write(Header_Set(w, "application/json"), "jsonBody")
  /\ pc' = "done"
  /\ UNCHANGED <<path, fromTime, itemsCap, capErr, fromErr, cancelled, fetched, parsed, feed, i,
                 count, wg, unit, feedNew>>

ToJSONError ==
  /\ pc = "serialize"
  /\ feed.FeedType = "json"
  /\ used' = "ToJSON"
  /\ w' = http_Error(w, "Server error", 500)
  /\ pc' = "done"
  /\ UNCHANGED <<path, fromTime, itemsCap, capErr, fromErr, cancelled, fetched, parsed, feed, i,
                 count, wg, unit, feedNew>>

\* lines 318-323: Encode fails, before or after the header went out
EncodeError ==
  /\ pc = "serialize"
  /\ feed.FeedType = "json"
  /\ used' = "ToJSON"
  /\ \E headerOut \in BOOLEAN :
       LET w1 == Header_Set(w, "application/json")
           w2 == IF headerOut THEN WriteHeader(w1, 200) ELSE w1
       IN  w' = http_Error(w2, "Server error", 500)
  /\ pc' = "done"
  /\ UNCHANGED <<path, fromTime, itemsCap, capErr, fromErr, cancelled, fetched, parsed, feed, i,
                 count, wg, unit, feedNew>>

\* ---- the context of the request ----

\* req.Context() is cancelled when the client goes away. The handler reads
\* ctx only in fetchFeed (line 105) and in log calls, so the cancellation is
\* followed from the call of fetchFeed and while goroutines are in flight.
Cancel ==
  /\ pc = "fetchFeed" \/ \E k \in DOMAIN unit : unit[k] = "running"
  /\ ~cancelled
  /\ cancelled' = TRUE
  /\ UNCHANGED <<pc, path, w, fromTime, itemsCap, capErr, fromErr, fetched,
                 parsed, feed, i, count, wg, unit, feedNew, used>>

Next ==
  \/ ServeBadge
  \/ ServeFavicon
  \/ RejectUrl
  \/ AcceptUrl
  \/ FromTimeDefault
  \/ FromTimeParam
  \/ FromTimeError
  \/ ItemsCapDefault
  \/ ItemsCapParam
  \/ ItemsCapError
  \/ FetchFeedError
  \/ FetchFeedOk
  \/ LoopEnd
  \/ CapReached
  \/ SkipContent
  \/ SkipNoTime
  \/ SkipOld
  \/ Launch
  \/ \E k \in DOMAIN unit : UnitOk(k)
  \/ \E k \in DOMAIN unit : UnitFailed(k)
  \/ Return
  \/ BuildFeed
  \/ ToRss
  \/ ToRssError
  \/ ToAtom
  \/ ToAtomError
  \/ ToJSON
  \/ ToJSONError
  \/ EncodeError
  \/ Cancel

Spec == Init /\ [][Next]_vars

\* ---- the request of an RSS feed that no client abandons ----

\* Every shape of item, one format: the selection and the enrichment read
\* nothing of the format, which only picks the serializer.
FetchFeedRss == FetchFeedFrom({"rss"}, ItemLists)

NextItems ==
  \/ ServeBadge
  \/ ServeFavicon
  \/ RejectUrl
  \/ AcceptUrl
  \/ FromTimeDefault
  \/ FromTimeParam
  \/ FromTimeError
  \/ ItemsCapDefault
  \/ ItemsCapParam
  \/ ItemsCapError
  \/ FetchFeedError
  \/ FetchFeedRss
  \/ LoopEnd
  \/ CapReached
  \/ SkipContent
  \/ SkipNoTime
  \/ SkipOld
  \/ Launch
  \/ \E k \in DOMAIN unit : UnitOk(k)
  \/ \E k \in DOMAIN unit : UnitFailed(k)
  \/ Return
  \/ BuildFeed
  \/ ToRss
  \/ ToRssError

ItemsSpec == Init /\ [][NextItems]_vars

\* ---- scheduling ----

\* the feeds whose items carry no published time: as many items, contents
\* and windows as ItemLists, one timestamp per item
LiveItemLists ==
  {s \in ItemLists : \A k \in DOMAIN s : s[k].PublishedParsed = NULL}

FetchFeedLive == FetchFeedFrom(FeedTypes, LiveItemLists)

\* the steps of the goroutine that runs processRequest
Handler ==
  \/ ServeBadge \/ ServeFavicon \/ RejectUrl \/ AcceptUrl
  \/ FromTimeDefault \/ FromTimeParam \/ FromTimeError
  \/ ItemsCapDefault \/ ItemsCapParam \/ ItemsCapError
  \/ FetchFeedError \/ FetchFeedLive
  \/ LoopEnd \/ CapReached \/ SkipContent \/ SkipNoTime \/ SkipOld \/ Launch
  \/ Return \/ BuildFeed
  \/ ToRss \/ ToRssError \/ ToAtom \/ ToAtomError
  \/ ToJSON \/ ToJSONError \/ EncodeError

\* the goroutine of item k: readability.FromURL returns within
\* defaultHTTPTimeout, with an article or with an error
Unit(k) == k \in DOMAIN unit /\ (UnitOk(k) \/ UnitFailed(k))

NextLive ==
  \/ Handler
  \/ \E k \in 1..MaxItems : Unit(k)
  \/ Cancel

\* The Go scheduler runs every runnable goroutine and every network call of
\* the handler and of the goroutines returns (fetchFeed, FromURL with its
\* timeout); nothing obliges the client to go away.
FairSpec ==
  /\ Init
  /\ [][NextLive]_vars
  /\ WF_vars(Handler)
  /\ \A k \in 1..MaxItems : WF_vars(Unit(k))

\* ---- vocabulary of the properties ----

\* the items for which a goroutine was launched
launched == {k \in DOMAIN unit : unit[k] # "none"}

inFlight == {k \in DOMAIN unit : unit[k] = "running"}

\* fetchFeedItems has left its loop
loopLeft == pc \in {"wg.Wait", "build", "serialize"} \/ (pc = "done" /\ used # "")

\* fetchFeedItems has returned
returned == pc \in {"build", "serialize"} \/ (pc = "done" /\ used # "")

\* feedNew.Items is built
built == pc = "serialize" \/ (pc = "done" /\ used # "")

feedBodies == {"rssBody", "atomBody", "jsonBody"}

\* a feed body went out on the response
emitted == \E n \in DOMAIN w.body : w.body[n] \in feedBodies

\* empty content and a resolved timestamp not before from
eligible == {k \in DOMAIN parsed.Items :
               /\ parsed.Items[k].Content = emptyContent
               /\ \/ parsed.Items[k].UpdatedParsed # NULL
                  \/ parsed.Items[k].PublishedParsed # NULL
               /\ itemTime(parsed.Items[k]) >= fromTime}

\* the eligible items that have fewer than n eligible items before them
firstEligible(n) == {k \in eligible : Cardinality({j \in eligible : j < k}) < n}

original(k) == parsed.Items[k].Content

\* C1: an item whose content is non-empty when the feed is parsed is never
\* selected: no goroutine is launched for it, count counts launched items
\* only, and its content in the feed of fetchFeedItems and in the new feed
\* is its original content, in every interleaving of the goroutines.
C1_ContentItemsNeverEnriched ==
  /\ count = Cardinality(launched)
  /\ \A k \in DOMAIN parsed.Items :
       original(k) # emptyContent =>
         /\ unit[k] = "none"
         /\ feed.Items[k].Content = original(k)
         /\ built => feedNew[k].Content = original(k)

C1_Witness ==
  /\ pc = "done"
  /\ emitted
  /\ \E k, j \in DOMAIN parsed.Items :
       /\ k < j
       /\ original(k) # emptyContent
       /\ unit[j] = "ok"
       /\ count = itemsCap

\* C2: with a cap of at least 1 the goroutines launched are exactly the first
\* min(cap, k) of the k eligible items in source order: skipped items consume
\* no cap, and every item after the cap-th accepted one is never scanned and
\* keeps its original content.
C2_FirstCapEligibleLaunched ==
  (itemsCap >= 1 /\ pc \notin {"route", "from_time", "items_cap", "fetchFeed"}) =>
    /\ launched \subseteq firstEligible(itemsCap)
    /\ loopLeft => launched = firstEligible(itemsCap)
    /\ \A k \in DOMAIN parsed.Items :
         /\ k \notin firstEligible(itemsCap) => feed.Items[k].Content = original(k)
         /\ Cardinality({j \in eligible : j < k}) >= itemsCap =>
              /\ i <= k
              /\ unit[k] = "none"

C2_Witness ==
  /\ pc = "done"
  /\ emitted
  /\ itemsCap >= 1
  /\ Cardinality(eligible) > itemsCap
  /\ Cardinality(launched) = itemsCap
  /\ \E k \in eligible : unit[k] = "none" /\ feed.Items[k].Content = emptyContent

\* C3: an item whose resolved timestamp is strictly before from is never
\* selected, whatever the cap; an item with empty content whose resolved
\* timestamp equals from is launched when the loop passes it.
C3_WindowBound ==
  \A k \in DOMAIN parsed.Items :
    LET t == itemTime(parsed.Items[k])
    IN  /\ (t # NULL /\ t < fromTime) => unit[k] = "none"
        /\ (original(k) = emptyContent /\ t = fromTime /\ i > k) => unit[k] # "none"

C3_Witness ==
  /\ pc = "done"
  /\ emitted
  /\ count < itemsCap
  /\ \E k, j \in DOMAIN parsed.Items :
       /\ original(k) = emptyContent
       /\ itemTime(parsed.Items[k]) # NULL
       /\ itemTime(parsed.Items[k]) < fromTime
       /\ unit[k] = "none"
       /\ original(j) = emptyContent
       /\ itemTime(parsed.Items[j]) = fromTime
       /\ unit[j] = "ok"

\* C4: an item with neither an updated nor a published timestamp is never
\* selected and is not counted, and its content after the pipeline is its
\* content before it.
C4_NoTimestampNeverSelected ==
  \A k \in DOMAIN parsed.Items :
    (parsed.Items[k].UpdatedParsed = NULL /\ parsed.Items[k].PublishedParsed = NULL) =>
      /\ unit[k] = "none"
      /\ count = Cardinality(launched \ {k})
      /\ feed.Items[k].Content = original(k)
      /\ built => feedNew[k].Content = original(k)

C4_Witness ==
  /\ pc = "done"
  /\ emitted
  /\ count < itemsCap
  /\ \E k \in DOMAIN parsed.Items :
       /\ parsed.Items[k].UpdatedParsed = NULL
       /\ parsed.Items[k].PublishedParsed = NULL
       /\ original(k) = emptyContent
       /\ feedNew[k].Content = emptyContent

\* C5: whatever subset of the launched goroutines fails, a failed item keeps
\* its content from before the enrichment, a successful item carries the
\* content extracted from its own page, every other item is as parsed, the
\* join opens once no goroutine runs, the new feed carries these contents, and
\* no failure writes anything to the response.
C5_FailuresAreIsolated ==
  /\ \A k \in DOMAIN parsed.Items :
       /\ unit[k] = "failed" => feed.Items[k].Content = original(k)
       /\ unit[k] = "ok" => feed.Items[k].Content = articleContent(parsed.Items[k].Link)
       /\ unit[k] \in {"none", "running"} => feed.Items[k].Content = original(k)
       /\ built => feedNew[k].Content = feed.Items[k].Content
  /\ (pc = "wg.Wait" /\ inFlight = {}) => ENABLED Return
  /\ (pc \in {"loop", "wg.Wait", "build", "serialize"} /\ ~capErr) => ~w.wroteHeader

C5_Witness ==
  /\ pc = "done"
  /\ emitted
  /\ \E k, j \in DOMAIN parsed.Items :
       /\ unit[k] = "failed"
       /\ unit[j] = "ok"
       /\ feedNew[k].Content = emptyContent
       /\ feedNew[j].Content = articleContent(j)

\* C6: fetchFeedItems returns only when every goroutine it launched has
\* completed: while the new feed is built, serialized or written no goroutine
\* runs, and the contents the new feed was built from are the final ones.
C6_JoinBeforeAssembly ==
  /\ returned => inFlight = {}
  /\ built => \A k \in DOMAIN feed.Items : feedNew[k].Content = feed.Items[k].Content
  /\ wg = Cardinality(inFlight)

C6_Witness ==
  /\ pc = "build"
  /\ Cardinality({k \in DOMAIN unit : unit[k] \in {"ok", "failed"}}) >= 2

\* C7: for every request that reaches serialization, the serializer called and
\* the Content-Type of the response are those of the format tag of the parsed
\* feed, which the pipeline never changes: rss gives ToRss and
\* application/xml, atom gives ToAtom and application/xml, json gives ToJSON
\* and application/json.
serializerOf(t) ==
  CASE t = "rss" -> "ToRss" [] t = "atom" -> "ToAtom" [] t = "json" -> "ToJSON"

contentTypeOf(t) ==
  CASE t = "rss" -> "application/xml" [] t = "atom" -> "application/xml"
    [] t = "json" -> "application/json"

C7_FormatRoundTrip ==
  /\ feed.FeedType = parsed.FeedType
  /\ emitted =>
       /\ used = serializerOf(parsed.FeedType)
       /\ w.sent = contentTypeOf(parsed.FeedType)

\* C8: the cap limits enrichment, not emission: the new feed has as many items
\* as the parsed feed, in the same order, and every item that was not selected
\* carries its original content.
C8_AllItemsEmitted ==
  built =>
    /\ Len(feedNew) = Len(parsed.Items)
    /\ \A k \in DOMAIN parsed.Items :
         /\ feedNew[k].Id = parsed.Items[k].GUID
         /\ feedNew[k].Link = parsed.Items[k].Link
         /\ unit[k] = "none" => feedNew[k].Content = original(k)

C8_Witness ==
  /\ pc = "done"
  /\ emitted
  /\ Len(feedNew) >= 2
  /\ count = itemsCap
  /\ unit[1] = "ok"
  /\ unit[Len(feedNew)] = "none"
  /\ feedNew[Len(feedNew)].Content = emptyContent

\* C9: a request whose items_cap is not an integer is answered with 400 and
\* aborted before any network fetch: the feed is never fetched, no goroutine
\* is launched and nothing but the 400 message is written.
C9_BadItemsCapAborts ==
  capErr =>
    /\ ~fetched
    /\ launched = {}
    /\ w.status = 400
    /\ w.body = <<errorMsg(fromTimeParamName)>>

\* C10: a request whose path fails URL validation once https:// is prepended
\* is rejected with 400 before any network I/O: the feed is never fetched and
\* no goroutine is launched.
failsValidation ==
  LET feedURL == strings_TrimPrefix(path)
      u == url_Parse(feedURL)
  IN  /\ feedURL \notin {"", "favicon.ico"}
      /\ u.err \/ u.Scheme = "" \/ u.Host = ""

C10_InvalidUrlRejected ==
  failsValidation =>
    /\ pc \in {"route", "done"}
    /\ ~fetched
    /\ launched = {}
    /\ pc = "done" =>
         /\ w.status = 400
         /\ w.body = <<"No valid RSS URL found in the path">>

C10_Witness ==
  /\ pc = "done"
  /\ failsValidation
  /\ ~url_Parse(strings_TrimPrefix(path)).err
  /\ w.status = 400

\* C11: a request with a valid target URL whose from_time does not parse in
\* the strict format is answered with 400 and the handler returns at once:
\* the feed is never fetched and no goroutine is launched.
C11_BadFromTimeRejected ==
  fromErr =>
    /\ pc = "done"
    /\ isValidUrl(strings_TrimPrefix(path))
    /\ ~fetched
    /\ launched = {}
    /\ w.status = 400
    /\ w.body = <<errorMsg(fromTimeParamName)>>

C11_Witness ==
  /\ fromErr
  /\ pc = "done"
  /\ w.status = 400
  /\ ~capErr

\* fetchFeed returned an error
fetchFailed == fetched /\ parsed = NoFeed

\* C12: when the feed download or parse fails the request is aborted: no item
\* is selected, no goroutine is launched, no feed is serialized and no
\* response body, partial or otherwise, is written.
C12_FetchFailureAborts ==
  fetchFailed =>
    /\ pc = "done"
    /\ launched = {}
    /\ count = 0
    /\ feedNew = <<>>
    /\ used = ""
    /\ w.body = <<>>

\* C13: when every page fetch returns and scheduling is fair, every request
\* reaches a terminal state: the join of fetchFeedItems opens for any number
\* of launched goroutines, zero included, and any mix of outcomes, and a feed
\* that was fetched goes through the serializer of its format and out, or to
\* the 500 of a failed serialization.
serverError == \E n \in DOMAIN w.body : w.body[n] = "Server error"

C13_RequestTerminates ==
  /\ <>(pc = "done")
  /\ (pc = "loop") ~> (pc = "build")
  /\ (pc = "build") ~> (pc = "done" /\ used # "" /\ (emitted \/ serverError))

C13_Witness ==
  /\ pc = "done"
  /\ emitted
  /\ Cardinality(launched) >= 2
  /\ \A k \in launched : unit[k] = "failed"

\* C14: the time tested against from is the updated time whenever it is set
\* and the published time only when updated is absent: an item updated before
\* from is not selected even when published at or after from, and an item
\* updated at or after from is launched when the loop passes it even when
\* published before from.
C14_UpdatedPreferred ==
  \A k \in DOMAIN parsed.Items :
    LET u == parsed.Items[k].UpdatedParsed
        p == parsed.Items[k].PublishedParsed
        scanned == original(k) = emptyContent /\ i > k
    IN  /\ (u # NULL /\ u < fromTime) => unit[k] = "none"
        /\ (u # NULL /\ u >= fromTime /\ scanned) => unit[k] # "none"
        /\ (u = NULL /\ p # NULL /\ p < fromTime) => unit[k] = "none"
        /\ (u = NULL /\ p # NULL /\ p >= fromTime /\ scanned) => unit[k] # "none"

C14_Witness ==
  /\ pc = "done"
  /\ emitted
  /\ \E k, j \in DOMAIN parsed.Items :
       /\ original(k) = emptyContent
       /\ parsed.Items[k].UpdatedParsed # NULL
       /\ parsed.Items[k].UpdatedParsed < fromTime
       /\ parsed.Items[k].PublishedParsed >= fromTime
       /\ k < i
       /\ unit[k] = "none"
       /\ parsed.Items[j].UpdatedParsed >= fromTime
       /\ parsed.Items[j].PublishedParsed # NULL
       /\ parsed.Items[j].PublishedParsed < fromTime
       /\ unit[j] = "ok"

\* the cap is set: the handler is past the items_cap parameter
capSet == pc \notin {"route", "from_time", "items_cap"}

outcomeContent(k) ==
  IF unit[k] = "ok" THEN articleContent(parsed.Items[k].Link) ELSE original(k)

\* C16: a goroutine writes only the content field of the item it was launched
\* for (a step changes an item only when the goroutine of that item completes
\* with an article, and changes nothing else of the feed), so no two
\* goroutines write the same item, and after the join the content of every
\* item is fixed by the outcomes per item, whatever the order of completion.
C16_DisjointWrites ==
  /\ [][\A k \in DOMAIN feed.Items :
          feed'.Items[k] # feed.Items[k] =>
            /\ unit[k] = "running"
            /\ unit'[k] = "ok"
            /\ \A j \in DOMAIN feed.Items \ {k} :
                 feed'.Items[j] = feed.Items[j] /\ unit'[j] = unit[j]
            /\ feed'.Items[k] = [feed.Items[k] EXCEPT !.Content = feed'.Items[k].Content]
            /\ feed'.FeedType = feed.FeedType]_vars
  /\ [](returned => \A k \in DOMAIN feed.Items : feed.Items[k].Content = outcomeContent(k))

\* the goroutine of a later item has completed while that of an earlier item
\* still runs
C16_Witness ==
  \E k, j \in DOMAIN unit :
    /\ k < j
    /\ unit[k] = "running"
    /\ unit[j] = "ok"
    /\ feed.Items[j].Content = articleContent(j)

\* C17: when the request is cancelled while goroutines are in flight, the
\* cancellation reaches the page fetch of every goroutine: a fetch in flight
\* is aborted, so from the cancellation on no goroutine completes with an
\* article.
C17_CancelReachesUnits ==
  [][cancelled => \A k \in DOMAIN unit : unit[k] = "running" => unit'[k] # "ok"]_vars

\* The two-phase design: the selection of the items of a feed that nothing
\* has enriched yet, scanned from position k with n items accepted so far.
RECURSIVE selectFrom(_, _, _, _, _)
selectFrom(items, from, cap, k, n) ==
  IF k > Len(items) \/ n >= cap THEN {}
  ELSE IF items[k].Content # emptyContent THEN selectFrom(items, from, cap, k + 1, n)
  ELSE IF items[k].UpdatedParsed = NULL /\ items[k].PublishedParsed = NULL
    THEN selectFrom(items, from, cap, k + 1, n)
  ELSE IF (IF items[k].UpdatedParsed # NULL THEN items[k].UpdatedParsed
           ELSE items[k].PublishedParsed) < from
    THEN selectFrom(items, from, cap, k + 1, n)
  ELSE {k} \cup selectFrom(items, from, cap, k + 1, n + 1)

selected == selectFrom(parsed.Items, fromTime, itemsCap, 1, 0)

\* C18: fetchFeedItems launches goroutines while it scans, and goroutines of
\* earlier items may have written their content while later items are still
\* tested; yet in every interleaving the items launched are those that the
\* two-phase design selects on the feed as parsed with the same from and cap:
\* the launched items are the selected ones the loop has passed, all of them
\* once the loop is left, and the contents after the join are those of
\* enriching exactly the selected items.
C18_TwoPhaseEquivalence ==
  (capSet /\ pc # "fetchFeed") =>
    /\ launched = {k \in selected : k < i}
    /\ loopLeft => launched = selected
    /\ returned =>
         \A k \in DOMAIN feed.Items :
           feed.Items[k].Content =
             IF k \in selected /\ unit[k] = "ok"
             THEN articleContent(parsed.Items[k].Link) ELSE original(k)

\* a goroutine has written its content while a later item, which the
\* two-phase design selects, is still to be tested
C18_Witness ==
  \E k, j \in DOMAIN unit :
    /\ k < j
    /\ pc = "loop"
    /\ i = j
    /\ unit[k] = "ok"
    /\ feed.Items[k].Content # original(k)
    /\ j \in selected
    /\ unit[j] = "none"

\* C19: when the cap in effect is zero or negative, fetchFeedItems launches no
\* goroutine and returns at once, without passing any item, and the new feed
\* carries every item with its original content.
C19_NonPositiveCap ==
  (capSet /\ itemsCap <= 0) =>
    /\ launched = {}
    /\ count = 0
    /\ wg = 0
    /\ i = 1
    /\ feed.Items = parsed.Items
    /\ built =>
         /\ Len(feedNew) = Len(parsed.Items)
         /\ \A k \in DOMAIN parsed.Items :
              feedNew[k].Id = parsed.Items[k].GUID /\ feedNew[k].Content = original(k)

C19_Witness ==
  /\ pc = "done"
  /\ emitted
  /\ ~capErr
  /\ itemsCap < 0
  /\ Cardinality(eligible) >= 2
  /\ \A k \in eligible : feedNew[k].Content = emptyContent

\* an error message went out on the response
errorWritten ==
  \E n \in DOMAIN w.body :
    w.body[n] \in {"No valid RSS URL found in the path", "Server error",
                   errorMsg(fromTimeParamName), errorMsg(itemsCapParamName)}

\* C20: a request has at most one response outcome: once processRequest has
\* written an error response it takes no further step of the pipeline, so the
\* handler is at its end whenever an error message is on the response, no feed
\* body shares a response with an error message, and no feed fetch or goroutine
\* launch follows an error message.
C20_SingleOutcome ==
  /\ [](errorWritten => (pc = "done" /\ ~emitted))
  /\ [][errorWritten => (fetched' = fetched /\ unit' = unit /\ w' = w)]_vars

====
